---- MODULE Spec2Model ----
(***************************************************************************)
(* Model of odtbrain/_Back_3D.py: backpropagate_3d, _mprotate, _rotate and *)
(* _filter2_func.                                                          *)
(*                                                                         *)
(* Numbers are integers.  A complex number is a pair <<re, im>>.  A 2D     *)
(* array is a function on <<y, x>>, a 3D array a function on <<z, y, x>>,  *)
(* with 1-based indices.  Angles are counted in quarter turns.  The padding*)
(* factor is a fraction <<numerator, denominator>>.                        *)
(***************************************************************************)
EXTENDS Integers, Sequences, FiniteSets, TLC

VARIABLES
    args,           \* the arguments of the call of backpropagate_3d
    env,            \* _ncores and platform.system()
    pc,             \* position of the calling process in backpropagate_3d
    exc,            \* the exception that left backpropagate_3d, or "none"
    ret,            \* the returned volume, <<>> while nothing is returned
    lny, lnx,       \* sinogram.shape[1:]
    orderx, ordery, padx, pady, padyl, padyr, padxl, padxr,
    lNy, lNx,       \* sino.shape[1:]
    sinogram,       \* the (weighted) sinogram
    sino,           \* the padded sinogram; `projection` is the same array
    filter2,        \* the depth filter, one entry per z
    outarr,         \* the output volume
    filtered_proj,  \* the filtered projection of the current angle
    shared,         \* the contents of the shared array
    allocated,      \* shared_array_base exists
    published,      \* odtbrain._shared_array is bound
    filter2_pool,   \* "none", "alive" or "terminated"
    pool4loop,      \* "none", "alive" or "terminated"
    i,              \* index of the angle loop
    tasks,          \* targ_args of the running pool.map, with their state
    workers,        \* what each process of pool4loop is doing
    written,        \* what the caller last wrote to the shared array
    gen,            \* how often the caller wrote, rotated and read the array
    uSin,           \* the contents of the caller's array uSin
    bound,          \* the array each of sinogram and sino is bound to
    jmc, jmm        \* the caller's counters: <<>> for None, <<v>> for value v

ctlVars  == <<pc, exc, ret>>
padVars  == <<lny, lnx, orderx, ordery, padx, pady, padyl, padyr, padxl, padxr,
              lNy, lNx>>
dataVars == <<sinogram, sino, filter2, outarr, filtered_proj, shared, written,
              gen>>
resVars  == <<allocated, published, filter2_pool, pool4loop>>
parVars  == <<tasks, workers>>
memVars  == <<uSin, bound>>
jmVars   == <<jmc, jmm>>
callVars == <<memVars, jmVars>>
vars     == <<args, env, callVars, ctlVars, padVars, dataVars, resVars,
              parVars, i>>

----------------------------------------------------------------------------
(* Bounds of the model *)

MaxN      == 40     \* largest axis length of the padding computations
MaxDim    == 2      \* largest axis length of a sinogram that carries data
MaxA      == 2      \* largest number of angles
MaxCores  == 2      \* largest _ncores
MaxExp    == 6      \* the padded sizes compared against are 64 * 2^(0..MaxExp)
MaxBandCores == 5   \* largest _ncores of the band computations

(* Program constants *)

MinOrder  == 64     \* max(64., ...)

----------------------------------------------------------------------------
(* Arithmetic *)

Max(a, b) == IF a >= b THEN a ELSE b

\* 2**np.ceil(np.log(num/den) / np.log(2)) for num/den >= 1, and 1 below
RECURSIVE Pow2Ceil(_, _, _)
Pow2Ceil(num, den, P) ==
    IF P * den >= num THEN P ELSE Pow2Ceil(num, den, 2 * P)

\* 2**np.floor(...): what a floor in place of the ceil would give
RECURSIVE Pow2Floor(_, _, _)
Pow2Floor(num, den, P) ==
    IF 2 * P * den > num THEN P ELSE Pow2Floor(num, den, 2 * P)

order_floor(n, padfac) == Max(MinOrder, Pow2Floor(n * padfac[1], padfac[2], 1))

\* max(64., 2**np.ceil(np.log(n * padfac) / np.log(2)))
order(n, padfac) == Max(MinOrder, Pow2Ceil(n * padfac[1], padfac[2], 1))

\* padding[k] on: order - ln, off: 0
pad_amount(toggle, ord, ln) == IF toggle THEN ord - ln ELSE 0

\* np.int(np.ceil(p / 2))
ceil_half(p) == (p + 1) \div 2

pad_left(p) == ceil_half(p)

\* padyr = np.int(pady - padyl)
pad_yr(py, pyl) == py - pyl

\* padxr = np.int(padx - padyl)
pad_xr(px, pyl, pxl) == px - pyl

----------------------------------------------------------------------------
(* Arrays.  A complex number is <<re, im>>. *)

Idx2(ny, nx)     == (1 .. ny) \X (1 .. nx)
Idx3(nz, ny, nx) == (1 .. nz) \X (1 .. ny) \X (1 .. nx)

CZero == <<0, 0>>
CAdd(a, b)   == <<a[1] + b[1], a[2] + b[2]>>
CMul(a, b)   == <<a[1] * b[1] - a[2] * b[2], a[1] * b[2] + a[2] * b[1]>>
CScale(k, a) == <<k * a[1], k * a[2]>>

RECURSIVE CSum(_, _)
\* the sum of f[k] over the finite set S
CSum(f, S) ==
    IF S = {} THEN CZero
    ELSE LET k == CHOOSE e \in S : TRUE IN CAdd(f[k], CSum(f, S \ {k}))


\* index k + d on a circular axis of length n, 1-based
Wrap(k, d, n) == ((k - 1 + d) % n) + 1

----------------------------------------------------------------------------
(* util.compute_angle_weights_1d: the weight of each angle is its forward  *)
(* plus its backward gap to the nearest other angle value, around the full *)
(* turn (a full turn when there is no other value).                        *)

ForwardGap(angles, k) ==
    CHOOSE d \in 1 .. 4 :
        /\ \E j \in DOMAIN angles : angles[j] = (angles[k] + d) % 4
        /\ \A e \in 1 .. (d - 1) :
              ~ \E j \in DOMAIN angles : angles[j] = (angles[k] + e) % 4

BackwardGap(angles, k) ==
    CHOOSE d \in 1 .. 4 :
        /\ \E j \in DOMAIN angles : angles[j] = (angles[k] + 4 - d) % 4
        /\ \A e \in 1 .. (d - 1) :
              ~ \E j \in DOMAIN angles : angles[j] = (angles[k] + 4 - e) % 4

compute_angle_weights_1d(angles) ==
    [k \in DOMAIN angles |-> ForwardGap(angles, k) + BackwardGap(angles, k)]

\* lines 323-328
weighted(arr, angles, weight_angles) ==
    IF weight_angles
    THEN LET weights == compute_angle_weights_1d(angles)
         IN  [a \in DOMAIN arr |->
                [ix \in DOMAIN arr[a] |-> CScale(weights[a], arr[a][ix])]]
    ELSE arr

----------------------------------------------------------------------------
(* np.pad of one slice, axis y first and axis x second.  padval is <<>>    *)
(* for None (mode "edge") and <<v>> for the end value v of "linear_ramp".  *)
(* A ramp of width w holds, at distance d from the edge value e,           *)
(* e + (v - e) * d / w, here rounded down to an integer.                   *)

ramp(e, v, d, w) ==
    <<e[1] + ((v[1] - e[1]) * d) \div w, e[2] + ((v[2] - e[2]) * d) \div w>>

\* entry k of the axis of length n padded by l before and r after, where
\* line[j] is entry j of the unpadded axis
pad_axis(line, k, n, l, r, padval) ==
    IF k <= l
    THEN IF padval = <<>> THEN line[1]
         ELSE ramp(line[1], padval[1], l - k + 1, l)
    ELSE IF k > l + n
    THEN IF padval = <<>> THEN line[n]
         ELSE ramp(line[n], padval[1], k - l - n, r)
    ELSE line[k - l]

np_pad(slice, ny, nx, yl, yr, xl, xr, padval) ==
    LET ypad == [ix \in Idx2(ny + yl + yr, nx) |->
                    LET line == [j \in 1 .. ny |-> slice[<<j, ix[2]>>]]
                    IN  pad_axis(line, ix[1], ny, yl, yr, padval)]
    IN  [ix \in Idx2(ny + yl + yr, nx + xl + xr) |->
            LET line == [j \in 1 .. nx |-> ypad[<<ix[1], j>>]]
            IN  pad_axis(line, ix[2], nx, xl, xr, padval)]

----------------------------------------------------------------------------
(* The Fourier filters.  An array in the transform domain is represented   *)
(* by its inverse transform, so that multiplying it by a filter is the     *)
(* circular convolution with the kernel of the filter, and the             *)
(* unnormalised inverse transform divided by lNx * lNy gives the array     *)
(* back.  A kernel is a set of taps [dy, dx, c].                           *)

circ_conv(arr, ny, nx, kernel) ==
    [ix \in Idx2(ny, nx) |->
        CSum([t \in kernel |->
                 CMul(t.c, arr[<<Wrap(ix[1], t.dy, ny), Wrap(ix[2], t.dx, nx)>>])],
             kernel)]

\* prefactor (lines 443-449): -i times the |kx| ramp, whose kernel is the
\* negated second difference along x
prefactor ==
    { [dy |-> 0, dx |-> 0,  c |-> <<0, -2>>],
      [dy |-> 0, dx |-> 1,  c |-> <<0, 1>>],
      [dy |-> 0, dx |-> -1, c |-> <<0, 1>>] }

\* _filter2_func: exp(1j * zvp * Mpm1), to first order 1 + i z (Laplacian);
\* zv2 is twice the depth coordinate z
filter2_func(z2) ==
    { [dy |-> 0,  dx |-> 0,  c |-> <<1, -4 * z2>>],
      [dy |-> 1,  dx |-> 0,  c |-> <<0, z2>>],
      [dy |-> -1, dx |-> 0,  c |-> <<0, z2>>],
      [dy |-> 0,  dx |-> 1,  c |-> <<0, z2>>],
      [dy |-> 0,  dx |-> -1, c |-> <<0, z2>>] }

\* z = np.linspace(-center, center, lNz, endpoint=False), doubled (line 501)
zv2(p, lNz) == 2 * (p - 1) - lNz

\* lines 580-586: for every z the product with filter2[z], the inverse
\* transform, the crop of the padding and the normalisation
filter_projection(proj, flt, nz, ny, nx, Ny, Nx, yl, xl) ==
    LET slab == [z \in 1 .. nz |-> circ_conv(proj, Ny, Nx, flt[z])]
    IN  [ix \in Idx3(nz, ny, nx) |-> slab[ix[1]][<<yl + ix[2], xl + ix[3]>>]]

real_part(vol) == [ix \in DOMAIN vol |-> vol[ix][1]]
imag_part(vol) == [ix \in DOMAIN vol |-> vol[ix][2]]
\* np.ones in place of np.zeros
ones(nz, ny, nx) == [ix \in Idx3(nz, ny, nx) |-> 1]

zeros(nz, ny, nx) == [ix \in Idx3(nz, ny, nx) |-> 0]
czeros(nz, ny, nx) == [ix \in Idx3(nz, ny, nx) |-> CZero]

\* a = b, where the code has a += b
assign_into(a, b) == b

\* a += b
add_into(a, b) == [ix \in DOMAIN a |-> a[ix] + b[ix]]

\* both channels added to outarr.real
accumulate_real(out, part, buf) == [out EXCEPT !.real = add_into(@, buf)]

\* outarr.real += _shared_array, outarr.imag += _shared_array
accumulate(out, part, buf) == [out EXCEPT ![part] = add_into(@, buf)]


----------------------------------------------------------------------------
(* _rotate: scipy.ndimage.interpolation.rotate of the band ymin:ymax of    *)
(* the shared array by -ang in the plane of the axes (0, 2), in place,     *)
(* with zeros from outside.  ang is in quarter turns; the sample of        *)
(* output (z, x) is taken at M (o - c) + c, c the centre of the plane,     *)
(* computed in doubled coordinates.                                        *)

rot_source(z, x, nz, nx, q) ==
    LET Z  == 2 * z - (nz + 1)
        X  == 2 * x - (nx + 1)
        sZ == CASE q = 0 -> Z  [] q = 1 -> X  [] q = 2 -> -Z [] q = 3 -> -X
        sX == CASE q = 0 -> X  [] q = 1 -> -Z [] q = 2 -> -X [] q = 3 -> Z
    IN  <<(sZ + nz + 1) \div 2, (sX + nx + 1) \div 2>>

rotate(buf, nz, nx, d) ==
    LET q == (4 - (d.ang % 4)) % 4
    IN  [ix \in DOMAIN buf |->
            IF d.ymin < ix[2] /\ ix[2] <= d.ymax
            THEN LET s == rot_source(ix[1], ix[3], nz, nx, q)
                 IN  IF s[1] \in 1 .. nz /\ s[2] \in 1 .. nx
                     THEN buf[<<s[1], ix[2], s[2]>>]
                     ELSE 0
            ELSE buf[ix]]

\* bands of slsize slices each, the last one like the others
targ_args_even(ang, ny, ncores, ord) ==
    LET slsize == ny \div ncores
    IN  [t \in 1 .. ncores |->
            [ymin  |-> (t - 1) * slsize,
             ymax  |-> t * slsize,
             ang   |-> ang,
             order |-> ord]]

\* targ_args of _mprotate (lines 105-114)
targ_args(ang, ny, ncores, ord) ==
    LET slsize == ny \div ncores
    IN  [t \in 1 .. ncores |->
            [ymin  |-> (t - 1) * slsize,
             ymax  |-> IF t = ncores THEN ny ELSE t * slsize,
             ang   |-> ang,
             order |-> ord]]

\* scipy refuses a spline order outside 0..5
rotate_refused(d) == d.order < 0 \/ d.order > 5

RECURSIVE rotate_each(_, _, _, _, _)
\* for d in targ_args: _rotate(d)   (lines 124-125), from entry t on
rotate_each(buf, nz, nx, targs, t) ==
    IF t > Len(targs) THEN buf
    ELSE rotate_each(rotate(buf, nz, nx, targs[t]), nz, nx, targs, t + 1)

----------------------------------------------------------------------------
(* The arguments of a call *)

NoData == <<>>

\* A call with the defaults of the signature; padfac 1.75 is <<7, 4>>
DefaultArgs ==
    [ uSin          |-> NoData,
      uSin_dtype    |-> "complex128",
      uSin_ndim     |-> 3,
      uSin_shape    |-> <<0, 0>>,
      angles        |-> NoData,
      coords        |-> "None",
      weight_angles |-> TRUE,
      onlyreal      |-> FALSE,
      padding       |-> <<TRUE, TRUE>>,
      padding_dtype |-> "bool",
      padfac        |-> <<7, 4>>,
      padval        |-> <<>>,
      intp_order    |-> 2,
      dtype         |-> "float64",
      num_cores     |-> 1,
      jmc           |-> <<>>,
      jmm           |-> <<>> ]

DefaultEnv == [ ncores |-> 1, system |-> "Linux" ]

\* What the caller holds when it calls: its array and its counters
FreshCall ==
    /\ uSin = args.uSin
    /\ bound = [sinogram |-> "unbound", sino |-> "unbound"]
    /\ jmc = args.jmc /\ jmm = args.jmm

\* The state before the call has computed anything
Fresh ==
    /\ FreshCall
    /\ pc = "start" /\ exc = "none" /\ ret = <<>>
    /\ lny = 0 /\ lnx = 0
    /\ orderx = 0 /\ ordery = 0 /\ padx = 0 /\ pady = 0
    /\ padyl = 0 /\ padyr = 0 /\ padxl = 0 /\ padxr = 0
    /\ lNy = 0 /\ lNx = 0
    /\ sinogram = NoData /\ sino = NoData /\ filter2 = NoData
    /\ outarr = NoData /\ filtered_proj = NoData /\ shared = NoData
    /\ written = NoData
    /\ gen = [writes |-> 0, rotations |-> 0, reads |-> 0]
    /\ allocated = FALSE /\ published = FALSE
    /\ filter2_pool = "none" /\ pool4loop = "none"
    /\ i = 0 /\ tasks = <<>> /\ workers = <<>>

----------------------------------------------------------------------------
(* The padding computations of backpropagate_3d, on their own *)

PadFacs == { <<1, 1>>, <<7, 4>>, <<2, 1>>, <<4, 1>> }

\* the axis lengths tried: all small ones and the two of the docstring
Sizes == (1 .. MaxN) \cup {144, 150}

PadInit ==
    /\ \E pd \in BOOLEAN \X BOOLEAN, pf \in PadFacs :
          args = [DefaultArgs EXCEPT !.padding = pd, !.padfac = pf]
    /\ env = DefaultEnv
    /\ FreshCall
    /\ pc = "shape" /\ exc = "none" /\ ret = <<>>
    /\ lny \in Sizes /\ lnx \in Sizes
    /\ orderx = 0 /\ ordery = 0 /\ padx = 0 /\ pady = 0
    /\ padyl = 0 /\ padyr = 0 /\ padxl = 0 /\ padxr = 0
    /\ lNy = 0 /\ lNx = 0
    /\ sinogram = NoData /\ sino = NoData /\ filter2 = NoData
    /\ outarr = NoData /\ filtered_proj = NoData /\ shared = NoData
    /\ written = NoData
    /\ gen = [writes |-> 0, rotations |-> 0, reads |-> 0]
    /\ allocated = FALSE /\ published = FALSE
    /\ filter2_pool = "none" /\ pool4loop = "none"
    /\ i = 0 /\ tasks = <<>> /\ workers = <<>>

\* lines 340-359: orderx .. padxr
PadSizes ==
    /\ orderx' = order(lnx, args.padfac)
    /\ ordery' = order(lny, args.padfac)
    /\ padx'   = pad_amount(args.padding[1], orderx', lnx)
    /\ pady'   = pad_amount(args.padding[2], ordery', lny)
    /\ padyl'  = pad_left(pady')
    /\ padyr'  = pad_yr(pady', padyl')
    /\ padxl'  = pad_left(padx')
    /\ padxr'  = pad_xr(padx', padyl', padxl')

\* np.pad refuses a negative pad width
PadRefused == padyl < 0 \/ padyr < 0 \/ padxl < 0 \/ padxr < 0

ComputePadding ==
    /\ pc = "shape"
    /\ PadSizes
    /\ pc' = "sizes"
    /\ UNCHANGED <<args, env, callVars, exc, ret, lny, lnx, lNy, lNx, dataVars, resVars,
                   parVars, i>>

\* lines 363-382: the shape np.pad gives, or its ValueError
PadShape ==
    /\ pc = "sizes"
    /\ \/ /\ PadRefused
          /\ exc' = "ValueError" /\ pc' = "raised"
          /\ UNCHANGED <<lNy, lNx>>
       \/ /\ ~PadRefused
          /\ lNy' = lny + padyl + padyr
          /\ lNx' = lnx + padxl + padxr
          /\ pc' = "padded"
          /\ UNCHANGED exc
    /\ UNCHANGED <<args, env, callVars, ret, lny, lnx, orderx, ordery, padx, pady,
                   padyl, padyr, padxl, padxr, dataVars, resVars, parVars, i>>

PadNext == ComputePadding \/ PadShape

SpecPad == PadInit /\ [][PadNext]_vars

----------------------------------------------------------------------------
(* C7 *)

\* n * padfac <= v, for the fraction padfac
Covers(v, n, padfac) == v * padfac[2] >= n * padfac[1]

PaddedSizes == { MinOrder * 2^k : k \in 0 .. MaxExp }

IsSmallestPaddedSize(v, n, padfac) ==
    /\ v \in PaddedSizes
    /\ Covers(v, n, padfac)
    /\ \A w \in PaddedSizes : Covers(w, n, padfac) => v <= w

\* C7: once computed, the target padded size of each axis is the smallest of
\* 64, 128, 256, ... that is at least (axis length) * padfac.
C7_SmallestPaddedSize ==
    pc \in {"sizes", "padded", "raised"} =>
        /\ IsSmallestPaddedSize(orderx, lnx, args.padfac)
        /\ IsSmallestPaddedSize(ordery, lny, args.padfac)

\* the docstring's example: padfac 1.75 gives 256 for 144 and 512 for 150
C7_Witness ==
    /\ pc = "sizes" /\ args.padfac = <<7, 4>>
    /\ lnx = 144 /\ orderx = 256
    /\ lny = 150 /\ ordery = 512

(* C8 *)

\* C8: each axis is padded on its own: a toggle that is off leaves the axis
\* at its length, a toggle that is on pads it to its target size, and no pad
\* width is negative.
C8_AxesPaddedIndependently ==
    /\ pc \in {"sizes", "padded", "raised"} => ~PadRefused
    /\ pc = "padded" =>
          /\ lNx = (IF args.padding[1] THEN orderx ELSE lnx)
          /\ lNy = (IF args.padding[2] THEN ordery ELSE lny)
          /\ lNx >= lnx /\ lNy >= lny

(* C9 *)

EvenSplit(l, r, total) == l + r = total /\ l - r \in {0, 1}

\* C9: the pad amount of each axis is split evenly between its two edges.
C9_EvenSplitPerAxis ==
    pc \in {"sizes", "padded", "raised"} =>
        /\ EvenSplit(padyl, padyr, pady)
        /\ EvenSplit(padxl, padxr, padx)

----------------------------------------------------------------------------
(* backpropagate_3d *)

A  == Len(args.angles)
ln == Max(lnx, lny)

\* lines 269-270: jmm.value = A + 2, when jmm is given
jmm_value(m, a) == IF m = <<>> THEN m ELSE <<a + 2>>

not_incremented(c) == c

\* lines 466-467, 524-525, 617-618: jmc.value += 1, when jmc is given
incremented(c) == IF c = <<>> THEN c ELSE <<c[1] + 1>>

\* np.pad handing back its input when there is nothing to pad
pad_result_view(arr, yl, yr, xl, xr) ==
    IF yl = 0 /\ yr = 0 /\ xl = 0 /\ xr = 0 THEN arr ELSE "padded"

\* lines 363-371: the array np.pad returns is a new one, whatever the widths
pad_result(arr, yl, yr, xl, xr) == "padded"

\* lines 323-328: weights * uSin is a new array, sinogram = uSin is uSin
weighting_result(weight_angles) == IF weight_angles THEN "weighted" ELSE "uSin"

\* lines 470-478: what is written into sino[p, :, :] and projection[:] lands
\* in the caller's array when sino is that array
written_through(target, new, old) == IF target = "uSin" THEN new ELSE old

\* the checks of lines 273-302, in their order: the exception, or "none"
validation_error_no_coords(a, e) ==
    IF a.dtype \notin {"float32", "float64"} THEN "ValueError"
    ELSE IF ~(a.num_cores <= e.ncores) THEN "AssertionError"
    ELSE IF a.uSin_dtype # "complex128" THEN "AssertionError"
    ELSE IF a.uSin_ndim # 3 THEN "ValueError"
    ELSE IF Len(a.uSin) # Len(a.angles) THEN "ValueError"
    ELSE IF Len(a.padding) # 2 THEN "ValueError"
    ELSE IF a.padding_dtype # "bool" THEN "ValueError"
    ELSE "none"

validation_error(a, e) ==
    IF a.dtype \notin {"float32", "float64"} THEN "ValueError"
    ELSE IF ~(a.num_cores <= e.ncores) THEN "AssertionError"
    ELSE IF a.uSin_dtype # "complex128" THEN "AssertionError"
    ELSE IF a.uSin_ndim # 3 THEN "ValueError"
    ELSE IF Len(a.uSin) # Len(a.angles) THEN "ValueError"
    ELSE IF Len(a.padding) # 2 THEN "ValueError"
    ELSE IF a.padding_dtype # "bool" THEN "ValueError"
    ELSE IF a.coords # "None" THEN "NotImplementedError"
    ELSE "none"

\* lines 267-302, a check fails
ValidateRaise ==
    /\ pc = "start"
    /\ jmm' = jmm_value(jmm, A)
    /\ validation_error(args, env) # "none"
    /\ exc' = validation_error(args, env)
    /\ pc' = "raised"
    /\ UNCHANGED <<args, env, memVars, jmc, ret, padVars, dataVars, resVars, parVars, i>>

\* lines 267-302, all checks pass
Validate ==
    /\ pc = "start"
    /\ jmm' = jmm_value(jmm, A)
    /\ validation_error(args, env) = "none"
    /\ pc' = "weight"
    /\ UNCHANGED <<args, env, memVars, jmc, exc, ret, padVars, dataVars, resVars, parVars, i>>

\* lines 323-328
Weighting ==
    /\ pc = "weight"
    /\ sinogram' = weighted(uSin, args.angles, args.weight_angles)
    /\ bound' = [bound EXCEPT !.sinogram = weighting_result(args.weight_angles)]
    /\ pc' = "pad"
    /\ UNCHANGED <<args, env, uSin, jmVars, exc, ret, padVars, sino, filter2, outarr,
                   filtered_proj, shared, written, gen, resVars, parVars, i>>

\* lines 331-359
Geometry ==
    /\ lny' = args.uSin_shape[1]
    /\ lnx' = args.uSin_shape[2]
    /\ orderx' = order(lnx', args.padfac)
    /\ ordery' = order(lny', args.padfac)
    /\ padx'   = pad_amount(args.padding[1], orderx', lnx')
    /\ pady'   = pad_amount(args.padding[2], ordery', lny')
    /\ padyl'  = pad_left(pady')
    /\ padyr'  = pad_yr(pady', padyl')
    /\ padxl'  = pad_left(padx')
    /\ padxr'  = pad_xr(padx', padyl', padxl')

\* lines 331-382, np.pad accepts the pad widths
PadSinogram ==
    /\ pc = "pad"
    /\ Geometry
    /\ ~(padyl' < 0 \/ padyr' < 0 \/ padxl' < 0 \/ padxr' < 0)
    /\ lNy' = lny' + padyl' + padyr'
    /\ lNx' = lnx' + padxl' + padxr'
    /\ sino' = [a \in DOMAIN sinogram |->
                  np_pad(sinogram[a], lny', lnx', padyl', padyr', padxl', padxr',
                         args.padval)]
    /\ sinogram' = NoData
    /\ bound' = [sinogram |-> "unbound",
                 sino     |-> pad_result(bound.sinogram, padyl', padyr', padxl',
                                         padxr')]
    /\ pc' = "fft"
    /\ UNCHANGED <<args, env, uSin, jmVars, exc, ret, filter2, outarr, filtered_proj, shared,
                   written, gen, resVars, parVars, i>>

\* lines 331-371, np.pad raises on a negative pad width
PadSinogramRaise ==
    /\ pc = "pad"
    /\ Geometry
    /\ (padyl' < 0 \/ padyr' < 0 \/ padxl' < 0 \/ padxr' < 0)
    /\ exc' = "ValueError"
    /\ pc' = "raised"
    /\ UNCHANGED <<args, env, callVars, ret, lNy, lNx, dataVars, resVars, parVars, i>>

\* lines 460-478: the forward transform of every slice, times the prefactor
ForwardFilter ==
    /\ pc = "fft"
    /\ jmc' = incremented(jmc)
    /\ sino' = [a \in DOMAIN sino |-> circ_conv(sino[a], lNy, lNx, prefactor)]
    /\ uSin' = written_through(bound.sino, sino', uSin)
    /\ pc' = "filter2"
    /\ UNCHANGED <<args, env, bound, jmm, exc, ret, padVars, sinogram, filter2, outarr,
                   filtered_proj, shared, written, gen, resVars, parVars, i>>

\* lines 499-525: filter2_pool maps _filter2_func over z and is terminated
DepthFilter ==
    /\ pc = "filter2"
    /\ filter2' = [p \in 1 .. ln |-> filter2_func(zv2(p, ln))]
    /\ filter2_pool' = "terminated"
    /\ jmc' = incremented(jmc)
    /\ pc' = "alloc"
    /\ UNCHANGED <<args, env, memVars, jmm, exc, ret, padVars, sinogram, sino, outarr,
                   filtered_proj, shared, written, gen, allocated, published,
                   pool4loop, parVars, i>>

\* lines 515-516: filter2_pool.map raises the error of a worker
DepthFilterRaise ==
    /\ pc = "filter2"
    /\ filter2_pool' = "alive"
    /\ exc' = "WorkerError"
    /\ pc' = "raised"
    /\ UNCHANGED <<args, env, callVars, ret, padVars, dataVars, allocated, published,
                   pool4loop, parVars, i>>

\* lines 537-570
Allocate ==
    /\ pc = "alloc"
    /\ outarr' = IF args.onlyreal
                 THEN [real |-> zeros(ln, lny, lnx)]
                 ELSE [real |-> zeros(ln, lny, lnx), imag |-> zeros(ln, lny, lnx)]
    /\ shared' = zeros(ln, lny, lnx)
    /\ allocated' = TRUE
    /\ published' = TRUE
    /\ pool4loop' = "alive"
    /\ workers' = [w \in 1 .. args.num_cores |-> 0]
    /\ filtered_proj' = czeros(ln, lny, lnx)
    /\ pc' = "loop"
    /\ UNCHANGED <<args, env, callVars, exc, ret, padVars, sinogram, sino, filter2,
                   written, gen, filter2_pool, tasks, i>>

\* lines 572-586
FilterProjection ==
    /\ pc = "loop"
    /\ i < A
    /\ filtered_proj' = filter_projection(sino[i + 1], filter2, ln, lny, lnx,
                                          lNy, lNx, padyl, padxl)
    /\ pc' = "write_real"
    /\ UNCHANGED <<args, env, callVars, exc, ret, padVars, sinogram, sino, filter2,
                   outarr, shared, written, gen, resVars, parVars, i>>

\* a write that leaves the old entry where the new one is zero
write_shared_sparse(buf, src) ==
    [ix \in DOMAIN src |-> IF src[ix] = 0 THEN buf[ix] ELSE src[ix]]

\* _shared_array[:] = src
write_shared(buf, src) == src

\* line 594
WriteReal ==
    /\ pc = "write_real"
    /\ shared' = write_shared(shared, real_part(filtered_proj))
    /\ written' = shared'
    /\ gen' = [gen EXCEPT !.writes = @ + 1]
    /\ pc' = "rot_real"
    /\ UNCHANGED <<args, env, callVars, exc, ret, padVars, sinogram, sino, filter2,
                   outarr, filtered_proj, resVars, parVars, i>>

\* line 609
WriteImag ==
    /\ pc = "write_imag"
    /\ shared' = write_shared(shared, imag_part(filtered_proj))
    /\ written' = shared'
    /\ gen' = [gen EXCEPT !.writes = @ + 1]
    /\ pc' = "rot_imag"
    /\ UNCHANGED <<args, env, callVars, exc, ret, padVars, sinogram, sino, filter2,
                   outarr, filtered_proj, resVars, parVars, i>>

\* phi0 = np.rad2deg(angles[i])
phi0 == args.angles[i + 1]

Rotating(p) == p \in {"rot_real", "rot_imag"}
Mapping(p)  == p \in {"map_real", "map_imag"}
AfterRotation(p) ==
    CASE p \in {"rot_real", "map_real"} -> "acc_real"
      [] p \in {"rot_imag", "map_imag"} -> "acc_imag"

\* _mprotate on Windows (lines 105-125): the bands one after another
MprotateSequential ==
    /\ Rotating(pc)
    /\ env.system = "Windows"
    /\ LET targs == targ_args(phi0, lny, env.ncores, args.intp_order)
       IN  /\ \A t \in DOMAIN targs : ~rotate_refused(targs[t])
           /\ shared' = rotate_each(shared, ln, lnx, targs, 1)
    /\ gen' = [gen EXCEPT !.rotations = @ + 1]
    /\ pc' = AfterRotation(pc)
    /\ UNCHANGED <<args, env, callVars, exc, ret, padVars, sinogram, sino, filter2,
                   outarr, filtered_proj, written, resVars, parVars, i>>

\* _mprotate on Windows, the first _rotate raises
MprotateSequentialRaise ==
    /\ Rotating(pc)
    /\ env.system = "Windows"
    /\ rotate_refused(targ_args(phi0, lny, env.ncores, args.intp_order)[1])
    /\ gen' = [gen EXCEPT !.rotations = @ + 1]
    /\ exc' = "RuntimeError"
    /\ pc' = "raised"
    /\ UNCHANGED <<args, env, callVars, ret, padVars, sinogram, sino, filter2, outarr,
                   filtered_proj, shared, written, resVars, parVars, i>>

\* _mprotate elsewhere (lines 105-114, 128): pool.map is handed targ_args
MprotateSubmit ==
    /\ Rotating(pc)
    /\ env.system # "Windows"
    /\ tasks' = [t \in 1 .. env.ncores |->
                    [d  |-> targ_args(phi0, lny, env.ncores, args.intp_order)[t],
                     st |-> "queued"]]
    /\ gen' = [gen EXCEPT !.rotations = @ + 1]
    /\ pc' = IF pc = "rot_real" THEN "map_real" ELSE "map_imag"
    /\ UNCHANGED <<args, env, callVars, exc, ret, padVars, sinogram, sino, filter2,
                   outarr, filtered_proj, shared, written, resVars, workers, i>>

Queued == { t \in DOMAIN tasks : tasks[t].st = "queued" }

\* a process of the pool takes the next task of the queue
WorkerTake(w) ==
    /\ pool4loop = "alive"
    /\ workers[w] = 0
    /\ Queued # {}
    /\ LET t == CHOOSE q \in Queued : \A r \in Queued : q <= r
       IN  /\ tasks' = [tasks EXCEPT ![t].st = "running"]
           /\ workers' = [workers EXCEPT ![w] = t]
    /\ UNCHANGED <<args, env, callVars, ctlVars, padVars, dataVars, resVars, i>>

\* without shared memory the process rotates a copy of its own
pool_rotate_private(buf, nz, nx, d) == buf

\* what _rotate, run by a process of the pool, leaves in the shared array
pool_rotate(buf, nz, nx, d) == rotate(buf, nz, nx, d)

\* _rotate in a process of the pool (lines 131-142)
WorkerRotate(w) ==
    /\ pool4loop = "alive"
    /\ workers[w] # 0
    /\ ~rotate_refused(tasks[workers[w]].d)
    /\ shared' = pool_rotate(shared, ln, lnx, tasks[workers[w]].d)
    /\ tasks' = [tasks EXCEPT ![workers[w]].st = "done"]
    /\ workers' = [workers EXCEPT ![w] = 0]
    /\ UNCHANGED <<args, env, callVars, ctlVars, padVars, sinogram, sino, filter2, outarr,
                   filtered_proj, written, gen, resVars, i>>

\* _rotate raises in a process of the pool
WorkerRaise(w) ==
    /\ pool4loop = "alive"
    /\ workers[w] # 0
    /\ rotate_refused(tasks[workers[w]].d)
    /\ tasks' = [tasks EXCEPT ![workers[w]].st = "failed"]
    /\ workers' = [workers EXCEPT ![w] = 0]
    /\ UNCHANGED <<args, env, callVars, ctlVars, padVars, dataVars, resVars, i>>

\* a map that does not wait (map_async)
map_done_async(ts) == TRUE

\* pool.map returns once every task has returned
map_done(ts) == \A t \in DOMAIN ts : ts[t].st = "done"

\* line 128: pool.map returns
MapReturn ==
    /\ Mapping(pc)
    /\ map_done(tasks)
    /\ tasks' = IF \A t \in DOMAIN tasks : tasks[t].st = "done" THEN <<>> ELSE tasks
    /\ pc' = AfterRotation(pc)
    /\ UNCHANGED <<args, env, callVars, exc, ret, padVars, dataVars, resVars, workers, i>>

\* line 128: pool.map raises the error of a task, at once or after the
\* other tasks have returned
MapRaise ==
    /\ Mapping(pc)
    /\ \E t \in DOMAIN tasks : tasks[t].st = "failed"
    /\ exc' = "RuntimeError"
    /\ pc' = "raised"
    /\ UNCHANGED <<args, env, callVars, ret, padVars, dataVars, resVars, parVars, i>>

\* line 606
AccumulateReal ==
    /\ pc = "acc_real"
    /\ outarr' = accumulate(outarr, "real", shared)
    /\ gen' = [gen EXCEPT !.reads = @ + 1]
    /\ pc' = IF args.onlyreal THEN "next" ELSE "write_imag"
    /\ UNCHANGED <<args, env, callVars, exc, ret, padVars, sinogram, sino, filter2,
                   filtered_proj, shared, written, resVars, parVars, i>>

\* line 614
AccumulateImag ==
    /\ pc = "acc_imag"
    /\ outarr' = accumulate(outarr, "imag", shared)
    /\ gen' = [gen EXCEPT !.reads = @ + 1]
    /\ pc' = "next"
    /\ UNCHANGED <<args, env, callVars, exc, ret, padVars, sinogram, sino, filter2,
                   filtered_proj, shared, written, resVars, parVars, i>>

\* lines 617-618 and the step of the loop
NextAngle ==
    /\ pc = "next"
    /\ jmc' = incremented(jmc)
    /\ i' = i + 1
    /\ pc' = "loop"
    /\ UNCHANGED <<args, env, memVars, jmm, exc, ret, padVars, dataVars, resVars,
                   parVars>>

\* lines 620-626
Teardown ==
    /\ pc = "loop"
    /\ i = A
    /\ pool4loop' = "terminated"
    /\ workers' = <<>>
    /\ published' = FALSE
    /\ allocated' = FALSE
    /\ shared' = NoData
    /\ pc' = "return"
    /\ UNCHANGED <<args, env, callVars, exc, ret, padVars, sinogram, sino, filter2,
                   outarr, filtered_proj, written, gen, filter2_pool, tasks, i>>

\* line 628
Return ==
    /\ pc = "return"
    /\ ret' = <<outarr>>
    /\ pc' = "done"
    /\ UNCHANGED <<args, env, callVars, exc, padVars, dataVars, resVars, parVars, i>>

\* the steps of a call whose arguments pass the checks and whose workers
\* do not fail
RunNext ==
    \/ Validate \/ Weighting \/ PadSinogram \/ ForwardFilter \/ DepthFilter
    \/ Allocate \/ FilterProjection \/ WriteReal \/ WriteImag
    \/ MprotateSequential \/ MprotateSubmit
    \/ \E w \in DOMAIN workers : WorkerTake(w) \/ WorkerRotate(w)
    \/ MapReturn \/ AccumulateReal \/ AccumulateImag \/ NextAngle
    \/ Teardown \/ Return

\* the steps that end a call with an exception
FailNext ==
    \/ ValidateRaise \/ PadSinogramRaise \/ DepthFilterRaise
    \/ MprotateSequentialRaise \/ MapRaise
    \/ \E w \in DOMAIN workers : WorkerRaise(w)

Next == RunNext \/ FailNext

----------------------------------------------------------------------------
(* The calls of the specification Spec: valid and invalid arguments, both  *)
(* platforms, workers that fail.                                           *)

pattern_slice(k, ny, nx) == [ix \in Idx2(ny, nx) |-> <<k + ix[1], ix[2] - k>>]

half_turns(n) == [a \in 1 .. n |-> (2 * (a - 1)) % 4]

Envs == { [ncores |-> c, system |-> s] : c \in 1 .. MaxCores,
                                          s \in {"Linux", "Windows"} }

BaseCalls ==
    { [DefaultArgs EXCEPT
          !.uSin       = [a \in 1 .. n |-> pattern_slice(a, ny, nx)],
          !.uSin_shape = <<ny, nx>>,
          !.angles     = half_turns(n),
          !.onlyreal   = o,
          !.padding    = pd,
          !.intp_order = ord,
          !.num_cores  = nc] :
      n \in 1 .. MaxA, ny \in 1 .. MaxDim, nx \in 1 .. MaxDim, o \in BOOLEAN,
      pd \in {<<FALSE, FALSE>>, <<FALSE, TRUE>>}, ord \in {2, 6},
      nc \in 1 .. MaxCores }

Faults == {"dtype", "num_cores", "uSin_dtype", "ndim", "len", "padding_len",
           "padding_bool", "coords"}

with_faults(c, F, e) ==
    [c EXCEPT
        !.dtype         = IF "dtype" \in F THEN "int32" ELSE @,
        !.num_cores     = IF "num_cores" \in F THEN e.ncores + 1 ELSE @,
        !.uSin_dtype    = IF "uSin_dtype" \in F THEN "complex64" ELSE @,
        !.uSin_ndim     = IF "ndim" \in F THEN 2 ELSE @,
        !.angles        = IF "len" \in F THEN Append(@, 0) ELSE @,
        !.padding       = IF "padding_len" \in F THEN Append(@, TRUE) ELSE @,
        !.padding_dtype = IF "padding_bool" \in F THEN "int64" ELSE @,
        !.coords        = IF "coords" \in F THEN "given" ELSE @]

FaultyCalls(e) ==
    { with_faults(c, F, e) :
        c \in { b \in BaseCalls : /\ Len(b.uSin) = 1 /\ b.uSin_shape = <<1, 1>>
                                  /\ b.num_cores <= e.ncores },
        F \in SUBSET Faults \ {{}} }

\* the caller passes no counter, or jmc at 3, or jmm at 0, or both
Counters == { [jmc |-> c, jmm |-> m] : c \in {<<>>, <<3>>}, m \in {<<>>, <<0>>} }

with_counters(c, k) == [c EXCEPT !.jmc = k.jmc, !.jmm = k.jmm]

Init ==
    /\ env \in Envs
    /\ \E k \in Counters :
          \/ \E c \in BaseCalls : /\ c.num_cores <= env.ncores
                                  /\ args = with_counters(c, k)
          \/ \E c \in FaultyCalls(env) : args = with_counters(c, k)
    /\ Fresh

Spec == Init /\ [][Next]_vars

----------------------------------------------------------------------------
(* C1 *)

\* a band of the running pool.map is waiting for a process or being rotated
BandsPending == \E t \in DOMAIN tasks : tasks[t].st \in {"queued", "running"}

\* C1: while a band of a rotation is pending the caller is inside pool.map
\* (or has left with its error), and the write of that rotation is done;
\* writes, rotations and reads of the shared array follow each other one
\* generation at a time.
C1_StrictAlternation ==
    /\ BandsPending =>
          /\ pc \in {"map_real", "map_imag", "raised"}
          /\ gen.writes = gen.rotations
    /\ gen.writes - gen.rotations \in {0, 1}
    /\ gen.rotations - gen.reads \in {0, 1}
    /\ pc \in {"acc_real", "acc_imag"} => gen.rotations = gen.writes
    /\ pc \in {"write_real", "write_imag"} => gen.reads = gen.writes

\* two bands of the second rotation of a call are being rotated at once
C1_Witness ==
    /\ pc = "map_imag"
    /\ gen = [writes |-> 2, rotations |-> 2, reads |-> 1]
    /\ Cardinality({ t \in DOMAIN tasks : tasks[t].st = "running" }) = 2

(* C2 *)

\* C2: when the call has ended, by return or by exception, no pool is alive
\* and the shared array is neither allocated nor bound to the module.
C2_ReleasedOnEveryExit ==
    pc \in {"done", "raised"} =>
        /\ filter2_pool # "alive"
        /\ pool4loop # "alive"
        /\ ~published
        /\ ~allocated

(* C3 *)

InvalidCall ==
    \/ args.dtype \notin {"float32", "float64"}
    \/ args.num_cores > env.ncores
    \/ args.uSin_dtype # "complex128"
    \/ args.uSin_ndim # 3
    \/ Len(args.angles) # Len(args.uSin)
    \/ Len(args.padding) # 2
    \/ args.padding_dtype # "bool"
    \/ args.coords # "None"

\* C3: a call with invalid arguments never gets past its checks: it creates
\* no pool, allocates no shared array, weights, pads and transforms nothing,
\* returns nothing, and ends with the exception of a check.
C3_ValidationBeforeWork ==
    InvalidCall =>
        /\ pc \in {"start", "raised"}
        /\ pc = "raised" =>
              exc \in {"ValueError", "AssertionError", "NotImplementedError"}
        /\ filter2_pool = "none" /\ pool4loop = "none"
        /\ ~allocated /\ ~published
        /\ sinogram = NoData /\ sino = NoData /\ filter2 = NoData
        /\ outarr = NoData /\ ret = <<>>

\* a call whose only fault is coords, refused by the last check
C3_Witness ==
    /\ pc = "raised" /\ exc = "NotImplementedError"
    /\ args.coords # "None"
    /\ pool4loop = "none" /\ ~allocated

----------------------------------------------------------------------------
(* The calls of the specification SpecData: valid calls on sinograms that  *)
(* are all zero, with every option, and on sinograms with data.            *)

zero_slice(ny, nx) == [ix \in Idx2(ny, nx) |-> CZero]

\* the angles whose rotation maps the grid of the plane (ln, lnx) to itself
GridAngles(ny, nx) ==
    IF (Max(ny, nx) - nx) % 2 = 0 THEN {0, 1, 2, 3} ELSE {0, 2}

\* the k-th angle of a call of several angles: 0, a quarter or half turn, ...
turn(k, ny, nx) ==
    IF GridAngles(ny, nx) = {0, 2} THEN (2 * (k - 1)) % 4 ELSE (k - 1) % 4

\* one angle: every angle of the grid; more: the angles turn(1), turn(2), ...
\* in the order ord
AngleTuples(n, ny, nx) ==
    IF n = 1 THEN [1 .. n -> GridAngles(ny, nx)]
    ELSE { [k \in 1 .. n |-> turn(ord[k], ny, nx)] :
             ord \in { f \in [1 .. n -> 1 .. n] :
                         \A j \in 1 .. n : \E k \in 1 .. n : f[k] = j } }

\* None, 0, and a value larger than any pad width
PadVals == { <<>>, << <<0, 0>> >>, << <<MinOrder, 0>> >> }

\* the pool of one process, and the sequential rotation of _ncores bands
DataEnvs == { [ncores |-> 1, system |-> "Linux"],
              [ncores |-> MaxCores, system |-> "Windows"] }

\* all-zero sinograms at the angles turn(2), turn(3), ..., with every option
AllZeroCalls ==
    UNION { { [DefaultArgs EXCEPT
                 !.uSin          = [a \in 1 .. n |-> zero_slice(ny, nx)],
                 !.uSin_shape    = <<ny, nx>>,
                 !.angles        = [k \in 1 .. n |-> turn(k + 1, ny, nx)],
                 !.weight_angles = w,
                 !.onlyreal      = o,
                 !.padding       = pd,
                 !.padval        = pv] :
              w \in BOOLEAN, o \in BOOLEAN,
              pd \in {<<FALSE, FALSE>>, <<TRUE, FALSE>>, <<TRUE, TRUE>>},
              pv \in PadVals } :
            n \in 1 .. MaxA, ny \in 1 .. MaxDim, nx \in 1 .. MaxDim }

\* of the calls that pad both axes only those of one angle with the default
\* options, and without padding only the end values None and MinOrder
ZeroCalls ==
    { c \in AllZeroCalls :
        /\ c.padding = <<TRUE, TRUE>> =>
              (c.weight_angles /\ ~c.onlyreal /\ Len(c.angles) = 1)
        /\ c.padding = <<FALSE, FALSE>> => c.padval # << <<0, 0>> >> }

\* sinograms of different slices at different angles, in every order
DataCalls ==
    UNION { { [DefaultArgs EXCEPT
                 !.uSin          = [a \in 1 .. n |->
                                      pattern_slice((an[a] + nx) % 4, ny, nx)],
                 !.uSin_shape    = <<ny, nx>>,
                 !.angles        = an,
                 !.weight_angles = w,
                 !.onlyreal      = o,
                 !.padding       = pp[1],
                 !.padval        = pp[2]] :
              an \in AngleTuples(n, ny, nx), w \in BOOLEAN, o \in BOOLEAN,
              pp \in { <<<<FALSE, FALSE>>, <<>>>>,
                       <<<<TRUE, FALSE>>, << <<MinOrder, 0>> >>>> } } :
            n \in 1 .. MaxA, ny \in 1 .. MaxDim, nx \in 1 .. MaxDim }

\* the calls of one angle on both platforms, the others on Windows
DataInit ==
    /\ env \in DataEnvs
    /\ \E c \in ZeroCalls \cup DataCalls :
          /\ env.system # "Windows" => Len(c.angles) = 1
          /\ args = [c EXCEPT !.num_cores = env.ncores]
    /\ Fresh

SpecData == DataInit /\ [][RunNext]_vars

----------------------------------------------------------------------------
(* The volume a call is to return, as a function of its arguments: every   *)
(* angle contributes its own filtered, rotated slice, and the              *)
(* contributions are added.                                                *)

\* the contribution of angle k to the channel part (1 real, 2 imaginary)
RefContribution(a, k, part) ==
    LET ny   == a.uSin_shape[1]
        nx   == a.uSin_shape[2]
        nz   == Max(nx, ny)
        px   == pad_amount(a.padding[1], order(nx, a.padfac), nx)
        py   == pad_amount(a.padding[2], order(ny, a.padfac), ny)
        yl   == pad_left(py)
        yr   == pad_yr(py, yl)
        xl   == pad_left(px)
        xr   == pad_xr(px, yl, xl)
        sl   == weighted(a.uSin, a.angles, a.weight_angles)[k]
        pd   == np_pad(sl, ny, nx, yl, yr, xl, xr, a.padval)
        pr   == circ_conv(pd, ny + yl + yr, nx + xl + xr, prefactor)
        flt  == [p \in 1 .. nz |-> filter2_func(zv2(p, nz))]
        fp   == filter_projection(pr, flt, nz, ny, nx, ny + yl + yr,
                                  nx + xl + xr, yl, xl)
        ch   == [ix \in DOMAIN fp |-> fp[ix][part]]
    IN  rotate(ch, nz, nx, [ymin |-> 0, ymax |-> ny, ang |-> a.angles[k]])

RECURSIVE RefSum(_, _, _)
\* the sum of the contributions of the angles 1 .. k
RefSum(a, k, part) ==
    IF k = 0
    THEN [ix \in Idx3(Max(a.uSin_shape[1], a.uSin_shape[2]),
                      a.uSin_shape[1], a.uSin_shape[2]) |-> 0]
    ELSE LET rest == RefSum(a, k - 1, part)
             c    == RefContribution(a, k, part)
         IN  [ix \in DOMAIN rest |-> rest[ix] + c[ix]]

RefVolume(a) ==
    IF a.onlyreal
    THEN [real |-> RefSum(a, Len(a.angles), 1)]
    ELSE [real |-> RefSum(a, Len(a.angles), 1),
          imag |-> RefSum(a, Len(a.angles), 2)]

IsZeroVolume(v) == \A part \in DOMAIN v : \A ix \in DOMAIN v[part] : v[part][ix] = 0

ZeroSinogram ==
    \A a \in DOMAIN args.uSin : \A ix \in DOMAIN args.uSin[a] :
        args.uSin[a][ix] = CZero

(* C4 *)

\* C4 as claimed: an all-zero sinogram gives an all-zero volume, whatever
\* the options.
C4_ZeroInZeroOut ==
    (pc = "done" /\ ZeroSinogram) => IsZeroVolume(ret[1])

\* C4 as amended: an all-zero sinogram gives an all-zero volume when padval
\* is None or zero, or when no axis is padded.
C4_ZeroInZeroOutNoRamp ==
    ( /\ pc = "done"
      /\ ZeroSinogram
      /\ \/ args.padval \in { <<>>, << <<0, 0>> >> }
         \/ args.padding = <<FALSE, FALSE>> )
    => IsZeroVolume(ret[1])

\* a zero sinogram of 2 x 2 slices, weighted, padded on both axes with a
\* ramp to 0, rotated and reconstructed in both channels
C4_Witness ==
    /\ pc = "done" /\ ZeroSinogram /\ IsZeroVolume(ret[1])
    /\ args.uSin_shape = <<2, 2>> /\ args.angles[1] # 0
    /\ args.padding = <<TRUE, TRUE>> /\ args.padval = << <<0, 0>> >>
    /\ args.weight_angles /\ ~args.onlyreal

(* C5 *)

\* C5: the real part of the returned volume is the sum of the rotated real
\* parts of the filtered projections, the same with onlyreal on and off.
C5_RealPartSameInBothModes ==
    pc = "done" =>
        /\ ret[1].real = RefSum([args EXCEPT !.onlyreal = ~@],
                                Len(args.angles), 1)
        /\ DOMAIN ret[1] = (IF args.onlyreal THEN {"real"} ELSE {"real", "imag"})

\* a complex reconstruction whose two channels differ and are not zero
C5_Witness ==
    /\ pc = "done" /\ ~args.onlyreal
    /\ ret[1].real # ret[1].imag
    /\ ~IsZeroVolume([real |-> ret[1].real])
    /\ ~IsZeroVolume([imag |-> ret[1].imag])
    /\ ret[1].real = RefSum([args EXCEPT !.onlyreal = TRUE], Len(args.angles), 1)

(* C6 *)

Perms(n) == { f \in [1 .. n -> 1 .. n] : \A j \in 1 .. n : \E k \in 1 .. n : f[k] = j }

permuted(a, f) ==
    [a EXCEPT !.uSin   = [k \in DOMAIN a.uSin |-> a.uSin[f[k]]],
              !.angles = [k \in DOMAIN a.angles |-> a.angles[f[k]]]]

\* C6: the returned volume is the volume of every reordering of the
\* (slice, angle) pairs of the call.
C6_OrderOfAnglesIrrelevant ==
    pc = "done" =>
        \A f \in Perms(Len(args.angles)) : ret[1] = RefVolume(permuted(args, f))

\* two different slices at two different angles, whose contributions differ
C6_Witness ==
    /\ pc = "done" /\ Len(args.angles) = 2
    /\ args.angles[1] # args.angles[2]
    /\ args.uSin[1] # args.uSin[2]
    /\ RefContribution(args, 1, 1) # RefContribution(args, 2, 1)
    /\ ret[1] = RefVolume(permuted(args, <<2, 1>>))

----------------------------------------------------------------------------
(* C10 *)

\* what the sequential path of _mprotate leaves of the array the caller
\* wrote: the bands rotated one after another
SequentialResult ==
    rotate_each(written, ln, lnx,
                targ_args(phi0, lny, env.ncores, args.intp_order), 1)

\* C10: when pool.map has returned, the shared array is what the sequential
\* path would have left, whatever the order in which the pool took and
\* finished the bands.
C10_PoolPathEqualsSequentialPath ==
    (env.system # "Windows" /\ pc \in {"acc_real", "acc_imag"}) =>
        shared = SequentialResult

\* the pool has rotated two bands of one slice each by a half turn, and the
\* array changed
C10_Witness ==
    /\ env.system # "Windows" /\ env.ncores = 2 /\ lny = 2
    /\ pc = "acc_imag" /\ phi0 = 2
    /\ shared # written
    /\ shared = SequentialResult

----------------------------------------------------------------------------
(* C11 *)

\* C11: the caller's array uSin holds the values it was called with, in every
\* state of every call, returned or raised.
C11_InputNeverMutated ==
    uSin = args.uSin

\* a call without weighting and without padding has returned: sinogram was
\* the caller's array itself, the transform and the prefactor were written
\* into sino in place, and the caller's array still holds its values
C11_Witness ==
    /\ pc = "done"
    /\ ~args.weight_angles /\ args.padding = <<FALSE, FALSE>>
    /\ \E a \in DOMAIN uSin : \E ix \in DOMAIN uSin[a] : uSin[a][ix] # CZero
    /\ bound.sino = "padded"
    /\ sino # args.uSin
    /\ uSin = args.uSin

----------------------------------------------------------------------------
(* C12 *)

CountersGiven == args.jmc # <<>> /\ args.jmm # <<>>

\* jmm.value is A + 2 from the first statement on, jmc.value lies between
\* its initial value and that plus jmm.value, and a returned call has added
\* exactly jmm.value to it
CountersInRange ==
    CountersGiven =>
        /\ pc # "start" => jmm = <<A + 2>>
        /\ jmc[1] >= args.jmc[1]
        /\ jmc[1] <= args.jmc[1] + jmm[1]
        /\ pc = "done" => jmc[1] = args.jmc[1] + jmm[1]

\* no step takes jmc.value down, and no step adds more than one
CounterStep ==
    CountersGiven => (jmc'[1] >= jmc[1] /\ jmc'[1] <= jmc[1] + 1)

\* C12: with both counters given, jmm.value is set to A + 2 at the beginning,
\* jmc.value never decreases and never exceeds its initial value plus
\* jmm.value, and a successful call increments it exactly jmm.value times.
C12_ProgressCounters ==
    []CountersInRange /\ [][CounterStep]_vars

\* a call of two angles has returned with jmc.value taken from 3 to 3 + 4
C12_Witness ==
    /\ pc = "done" /\ A = 2
    /\ args.jmc = <<3>> /\ args.jmm = <<0>>
    /\ jmm = <<4>> /\ jmc = <<7>>

----------------------------------------------------------------------------
(* C13 *)

\* C13: the bands handed to pool.map are as many as the processes of
\* pool4loop, which are num_cores.
C13_OneBandPerWorker ==
    Mapping(pc) =>
        /\ Len(workers) = args.num_cores
        /\ Len(tasks) = Len(workers)

----------------------------------------------------------------------------
(* The bands of _mprotate, on their own: every lny up to MaxN and every    *)
(* _ncores up to MaxBandCores, on both kinds of platform.                   *)

BandInit ==
    /\ env \in { [ncores |-> c, system |-> sy] :
                   c \in 1 .. MaxBandCores, sy \in {"Linux", "Windows"} }
    /\ \E nc \in 1 .. env.ncores : args = [DefaultArgs EXCEPT !.num_cores = nc]
    /\ FreshCall
    /\ pc = "mprotate" /\ exc = "none" /\ ret = <<>>
    /\ lny \in 1 .. MaxN /\ lnx = 1
    /\ orderx = 0 /\ ordery = 0 /\ padx = 0 /\ pady = 0
    /\ padyl = 0 /\ padyr = 0 /\ padxl = 0 /\ padxr = 0
    /\ lNy = 0 /\ lNx = 0
    /\ sinogram = NoData /\ sino = NoData /\ filter2 = NoData
    /\ outarr = NoData /\ filtered_proj = NoData /\ shared = NoData
    /\ written = NoData
    /\ gen = [writes |-> 0, rotations |-> 0, reads |-> 0]
    /\ allocated = FALSE /\ published = FALSE
    /\ filter2_pool = "none" /\ pool4loop = "none"
    /\ i = 0 /\ tasks = <<>> /\ workers = <<>>

\* lines 105-114: targ_args is filled, one entry per band
BuildBands ==
    /\ pc = "mprotate"
    /\ tasks' = [t \in 1 .. env.ncores |->
                    [d  |-> targ_args(0, lny, env.ncores, args.intp_order)[t],
                     st |-> "queued"]]
    /\ pc' = "bands"
    /\ UNCHANGED <<args, env, callVars, exc, ret, padVars, dataVars, resVars,
                   workers, i>>

SpecBands == BandInit /\ [][BuildBands]_vars

(* C14 *)

\* lines 135, 139: the slices [:, ymin:ymax, :] that _rotate reads and writes
band_rows(d) == { y \in 0 .. lny - 1 : d.ymin <= y /\ y < d.ymax }

\* C14: the bands start at 0, follow each other without gap or overlap and
\* end at lny, so that every slice y of the shared array lies in exactly
\* one band.
C14_BandsPartitionAxis ==
    tasks # <<>> =>
        /\ tasks[1].d.ymin = 0
        /\ tasks[Len(tasks)].d.ymax = lny
        /\ \A t \in DOMAIN tasks : tasks[t].d.ymin <= tasks[t].d.ymax
        /\ \A t \in 1 .. Len(tasks) - 1 : tasks[t].d.ymax = tasks[t + 1].d.ymin
        /\ \A y \in 0 .. lny - 1 :
              Cardinality({ t \in DOMAIN tasks : y \in band_rows(tasks[t].d) }) = 1

\* 7 slices on 3 cores: bands of 2, 2 and 3 slices
C14_Witness ==
    /\ pc = "bands" /\ lny = 7 /\ env.ncores = 3
    /\ tasks[1].d.ymax = 2 /\ tasks[2].d.ymax = 4
    /\ tasks[3].d.ymin = 4 /\ tasks[3].d.ymax = 7

====
